---- MODULE Spec2Model ----
(***************************************************************************)
(* A model of the entity-resolution and ingestion layer of the soccer      *)
(* statistics repository: the relational store (src/scrapers/database.py), *)
(* the get-or-create paths of the two scrapers                             *)
(* (src/scrapers/understat_scraper.py, src/scrapers/whoscored_scraper.py)  *)
(* and the name matching and link maintenance of                           *)
(* src/scrapers/data_merge.py.                                             *)
(*                                                                         *)
(* A name is a sequence of characters; a character is a one-element        *)
(* string, except the three non-ASCII code points the model knows, which   *)
(* are written "u00FC" (u with diaeresis), "u00DC" (U with diaeresis) and  *)
(* "u0308" (the combining diaeresis).  A table is the sequence of its rows *)
(* and a row's primary key `id` is its position: SQLite hands out          *)
(* max(rowid)+1 and the program never deletes a row.  The session has      *)
(* autoflush on, so every query sees the session's pending rows.  A        *)
(* query's .first() and .all() carry no ORDER BY; on the SQLite engine     *)
(* that init_db creates they scan the table in rowid order.                *)
(***************************************************************************)
EXTENDS Integers, Sequences, FiniteSets, TLC

(***************************************************************************)
(* Characters and strings                                                  *)
(***************************************************************************)
UpperChars == <<"A","B","C","D","E","F","G","H","I","J","K","L","M",
                "N","O","P","Q","R","S","T","U","V","W","X","Y","Z">>

LowerChars == <<"a","b","c","d","e","f","g","h","i","j","k","l","m",
                "n","o","p","q","r","s","t","u","v","w","x","y","z">>

NonAscii == {"u00FC", "u00DC", "u0308"}

\* lower() of SQLite (func.lower): ASCII letters only.
SqlLowerChar(c) ==
    IF \E i \in 1..26 : UpperChars[i] = c
    THEN LowerChars[CHOOSE i \in 1..26 : UpperChars[i] = c]
    ELSE c

\* str.lower() of Python: Unicode aware.
PyLowerChar(c) == IF c = "u00DC" THEN "u00FC" ELSE SqlLowerChar(c)

SqlLower(s) == [i \in 1..Len(s) |-> SqlLowerChar(s[i])]

PyLower(s) == [i \in 1..Len(s) |-> PyLowerChar(s[i])]

\* unicodedata.normalize('NFKD', c) of one character.
NFKDChar(c) ==
    CASE c = "u00FC" -> <<"u", "u0308">>
      [] c = "u00DC" -> <<"U", "u0308">>
      [] OTHER -> <<c>>

RECURSIVE NFKD(_)
NFKD(s) == IF s = <<>> THEN <<>> ELSE NFKDChar(Head(s)) \o NFKD(Tail(s))

\* .encode('ASCII', 'ignore').decode('ASCII')
AsciiIgnore(s) == SelectSeq(s, LAMBDA c : c \notin NonAscii)

RECURSIVE LStrip(_)
LStrip(s) == IF s # <<>> /\ Head(s) = " " THEN LStrip(Tail(s)) ELSE s

RECURSIVE RStrip(_)
RStrip(s) ==
    IF s # <<>> /\ s[Len(s)] = " " THEN RStrip(SubSeq(s, 1, Len(s) - 1)) ELSE s

Strip(s) == LStrip(RStrip(s))

\* (mutant) normalize_name stripping the whitespace before the accents
normalize_name_strip_first(name) ==
    IF name = <<>> THEN <<>> ELSE PyLower(AsciiIgnore(NFKD(Strip(name))))

\* data_merge.normalize_name
normalize_name(name) ==
    IF name = <<>> THEN <<>> ELSE Strip(PyLower(AsciiIgnore(NFKD(name))))

\* s occurs in t as a contiguous run (SQL LIKE '%s%' for s without wildcards)
Contains(t, s) ==
    \E i \in 0..(Len(t) - Len(s)) : SubSeq(t, i + 1, i + Len(s)) = s

(***************************************************************************)
(* difflib.SequenceMatcher(None, a, b).ratio(), for len(b) < 200 (no       *)
(* autojunk).  A block <<i, j, k>> says a[i+1..i+k] = b[j+1..j+k].         *)
(***************************************************************************)
MatchingBlocks(a, b, alo, ahi, blo, bhi) ==
    {blk \in (alo..(ahi - 1)) \X (blo..(bhi - 1)) \X (1..(ahi - alo)) :
        /\ blk[1] + blk[3] <= ahi
        /\ blk[2] + blk[3] <= bhi
        /\ \A d \in 1..blk[3] : a[blk[1] + d] = b[blk[2] + d]}

\* find_longest_match: the longest block; of those the one starting earliest
\* in a; of those the one starting earliest in b.  <<alo, blo, 0>> if none.
find_longest_match(a, b, alo, ahi, blo, bhi) ==
    LET blocks == MatchingBlocks(a, b, alo, ahi, blo, bhi) IN
    IF blocks = {} THEN <<alo, blo, 0>>
    ELSE CHOOSE x \in blocks :
           \A y \in blocks :
              \/ x[3] > y[3]
              \/ x[3] = y[3] /\ x[1] < y[1]
              \/ x[3] = y[3] /\ x[1] = y[1] /\ x[2] <= y[2]

\* get_matching_blocks, summed: the total size of the blocks found by
\* recursing to the left and to the right of each longest match.
RECURSIVE matched_size(_, _, _, _, _, _)
matched_size(a, b, alo, ahi, blo, bhi) ==
    LET m == find_longest_match(a, b, alo, ahi, blo, bhi) IN
    IF m[3] = 0 THEN 0
    ELSE m[3]
         + (IF alo < m[1] /\ blo < m[2]
            THEN matched_size(a, b, alo, m[1], blo, m[2]) ELSE 0)
         + (IF m[1] + m[3] < ahi /\ m[2] + m[3] < bhi
            THEN matched_size(a, b, m[1] + m[3], ahi, m[2] + m[3], bhi) ELSE 0)

\* ratio() as the fraction <<2*M, T>>; 1.0 for two empty strings.
Ratio(a, b) ==
    IF Len(a) + Len(b) = 0 THEN <<1, 1>>
    ELSE <<2 * matched_size(a, b, 0, Len(a), 0, Len(b)), Len(a) + Len(b)>>

\* data_merge.similarity_score
similarity_score(name1, name2) == Ratio(normalize_name(name1), normalize_name(name2))

\* comparisons of scores: fraction against fraction, fraction against percent
ScoreGt(x, y) == x[1] * y[2] > y[1] * x[2]

ScoreGePct(x, pct) == x[1] * 100 >= pct * x[2]

(***************************************************************************)
(* The store (src/scrapers/database.py).  Null stands for SQL NULL / None. *)
(***************************************************************************)
Null == -1

VARIABLES
    leagues,    \* rows of League: [name]
    seasons,    \* rows of Season: [year, league_id]
    teams,      \* rows of Team: [understat_id, name, league_id]
    players,    \* rows of Player: [understat_id, name]
    pstats,     \* rows of PlayerSeasonStats: [player_id, team_id, season_id, games, goals]
    wsplayers,  \* rows of WhoScoredPlayer: [whoscored_id, name, understat_player_id]
    wsstats,    \* rows of WhoScoredPlayerSeasonStats: [player_id, team_id, season_id, games, tackles]
    savedP,     \* pstats as of the Understat session's last commit
    savedW,     \* wsstats as of the WhoScored session's last commit
    call,       \* the last call: its name, its arguments' identity, what it returned
    procs,      \* per scraper process: where it is inside a get-or-create method
    batch,      \* the players_data of the scrape under way and the loop's position in it
    matches     \* rows of Match: [understat_id, season_id, home_team_id, away_team_id,
                \*                 home_goals, away_goals, is_result]

vars == <<leagues, seasons, teams, players, pstats, wsplayers, wsstats,
          savedP, savedW, call, procs, batch, matches>>

\* query(...).filter(cond).first(): the id of the first row, or Null
First(table, cond(_)) ==
    IF \E i \in 1..Len(table) : cond(table[i])
    THEN CHOOSE i \in 1..Len(table) :
            cond(table[i]) /\ \A j \in 1..(i - 1) : ~cond(table[j])
    ELSE Null

\* the ids of the rows a filter selects
Rows(table, cond(_)) == {i \in 1..Len(table) : cond(table[i])}

Unknown == <<"U","n","k","n","o","w","n">>

(***************************************************************************)
(* hash() of a string is seeded when the interpreter starts and differs    *)
(* from run to run; an action that hashes a name takes the hash h as an    *)
(* input, any value of HashVals.                                           *)
(***************************************************************************)
PlaceholderMod == 1000000

Abs(h) == IF h < 0 THEN 0 - h ELSE h

\* hashes: 5 and 1000005 give the same placeholder id, 999917 gives 83
HashVals == {5, 1000005, 999917}

\* -abs(hash(s)) % 1000000: the unary minus binds before %, and Python's %
\* takes the sign of the modulus.
PlaceholderId(h) == (0 - Abs(h)) % PlaceholderMod

(***************************************************************************)
(* Raw metric fields of a scraped record: the text of a number, "-" (the   *)
(* sites' placeholder for no value) or "missing" (the key is absent).      *)
(***************************************************************************)
IsNumeric(raw) == raw \in {"0", "1", "2"}

NumberOf(raw) == CASE raw = "0" -> 0 [] raw = "1" -> 1 [] raw = "2" -> 2

\* int(p.get(key, 0)) of _process_players_data: a missing key reads 0, text
\* that is no number raises ValueError
UnderstatIntRaises(raw) == raw # "missing" /\ ~IsNumeric(raw)

UnderstatInt(raw) == IF raw = "missing" THEN 0 ELSE NumberOf(raw)

\* WhoScoredScraper._safe_int
_safe_int(raw) == IF IsNumeric(raw) THEN NumberOf(raw) ELSE 0

(***************************************************************************)
(* UnderstatScraper                                                        *)
(***************************************************************************)
LeagueByCode(code) == First(leagues, LAMBDA r : r.name = code)

\* (mutant) the season looked up by its year alone
SeasonOfYearOnly(year, league_id) == First(seasons, LAMBDA r : r.year = year)

SeasonOf(year, league_id) ==
    First(seasons, LAMBDA r : r.year = year /\ r.league_id = league_id)

TeamByUnderstatId(uid) == First(teams, LAMBDA r : r.understat_id = uid)

TeamByName(name) == First(teams, LAMBDA r : r.name = name)

PlayerByUnderstatId(uid) == First(players, LAMBDA r : r.understat_id = uid)

PStatsOf(player_id, season_id, team_id) ==
    First(pstats, LAMBDA r : /\ r.player_id = player_id
                             /\ r.season_id = season_id
                             /\ r.team_id = team_id)

\* _get_or_create_league
U_get_or_create_league(code) ==
    LET league == LeagueByCode(code) IN
    /\ IF league = Null
       THEN /\ leagues' = Append(leagues, [name |-> code])
            /\ savedP' = pstats
       ELSE UNCHANGED <<leagues, savedP>>
    /\ UNCHANGED <<procs, batch, matches>>
    /\ call' = [op |-> "league", key |-> <<code>>,
                ret |-> IF league = Null THEN Len(leagues) + 1 ELSE league,
                raised |-> FALSE]
    /\ UNCHANGED <<seasons, teams, players, pstats, wsplayers, wsstats, savedW>>

\* _get_or_create_season
U_get_or_create_season(year, league_id) ==
    LET season == SeasonOf(year, league_id) IN
    /\ league_id \in 1..Len(leagues)
    /\ IF season = Null
       THEN /\ seasons' = Append(seasons, [year |-> year, league_id |-> league_id])
            /\ savedP' = pstats
       ELSE UNCHANGED <<seasons, savedP>>
    /\ UNCHANGED <<procs, batch, matches>>
    /\ call' = [op |-> "season", key |-> <<league_id, year>>,
                ret |-> IF season = Null THEN Len(seasons) + 1 ELSE season,
                raised |-> FALSE]
    /\ UNCHANGED <<leagues, teams, players, pstats, wsplayers, wsstats, savedW>>

\* _get_or_create_team
U_get_or_create_team(understat_id, name, league_id) ==
    LET team == TeamByUnderstatId(understat_id) IN
    /\ league_id \in 1..Len(leagues)
    /\ IF team = Null
       THEN /\ teams' = Append(teams, [understat_id |-> understat_id,
                                       name |-> name, league_id |-> league_id])
            /\ savedP' = pstats
       ELSE UNCHANGED <<teams, savedP>>
    /\ UNCHANGED <<procs, batch, matches>>
    /\ call' = [op |-> "team", key |-> <<understat_id>>,
                ret |-> IF team = Null THEN Len(teams) + 1 ELSE team,
                raised |-> FALSE, name |-> name]
    /\ UNCHANGED <<leagues, seasons, players, pstats, wsplayers, wsstats, savedW>>

\* _get_or_create_player
U_get_or_create_player(understat_id, name) ==
    LET player == PlayerByUnderstatId(understat_id) IN
    /\ IF player = Null
       THEN /\ players' = Append(players, [understat_id |-> understat_id, name |-> name])
            /\ savedP' = pstats
       ELSE UNCHANGED <<players, savedP>>
    /\ UNCHANGED <<procs, batch, matches>>
    /\ call' = [op |-> "player", key |-> <<understat_id>>,
                ret |-> IF player = Null THEN Len(players) + 1 ELSE player,
                raised |-> FALSE, name |-> name]
    /\ UNCHANGED <<leagues, seasons, teams, pstats, wsplayers, wsstats, savedW>>

\* team_title.split(",")[0].strip() if team_title else "Unknown"
RECURSIVE BeforeComma(_)
BeforeComma(s) ==
    IF s = <<>> \/ Head(s) = "," THEN <<>> ELSE <<Head(s)>> \o BeforeComma(Tail(s))

first_team_name(team_title) ==
    IF team_title = <<>> THEN Unknown ELSE Strip(BeforeComma(team_title))

\* (mutant) the team of a player record without the lookup by name
U_team_for_name_by_hash_only(team_name, league_id, h) ==
    LET placeholder_id == PlaceholderId(h)
        existing == TeamByUnderstatId(placeholder_id)
    IN  IF existing # Null THEN <<teams, existing, FALSE>>
        ELSE <<Append(teams, [understat_id |-> placeholder_id,
                              name |-> team_name, league_id |-> league_id]),
               Len(teams) + 1, TRUE>>

\* (mutant) the team of a player record without the lookup of the
\* placeholder id
U_team_for_name_no_id_lookup(team_name, league_id, h) ==
    LET team == TeamByName(team_name) IN
    IF team # Null THEN <<teams, team, FALSE>>
    ELSE <<Append(teams, [understat_id |-> PlaceholderId(h),
                          name |-> team_name, league_id |-> league_id]),
           Len(teams) + 1, TRUE>>

\* The team of a player record (lines 237-253): the first Team of that name,
\* else the Team whose understat_id is the name's placeholder id, else a new
\* Team.  <<the table afterwards, the team's id, whether a row was created>>
U_team_for_name(team_name, league_id, h) ==
    LET team == TeamByName(team_name)
        placeholder_id == PlaceholderId(h)
        existing == TeamByUnderstatId(placeholder_id)
    IN  IF team # Null THEN <<teams, team, FALSE>>
        ELSE IF existing # Null THEN <<teams, existing, FALSE>>
        ELSE <<Append(teams, [understat_id |-> placeholder_id,
                              name |-> team_name, league_id |-> league_id]),
               Len(teams) + 1, TRUE>>

\* the metric assignments of lines 271-285, up to the first that raises:
\* <<the row afterwards, whether one raised>>
U_update_stats(row, p) ==
    IF UnderstatIntRaises(p.games) THEN <<row, TRUE>>
    ELSE IF UnderstatIntRaises(p.goals)
         THEN <<[row EXCEPT !.games = UnderstatInt(p.games)], TRUE>>
    ELSE <<[row EXCEPT !.games = UnderstatInt(p.games),
                       !.goals = UnderstatInt(p.goals)], FALSE>>

\* One round of the loop of _process_players_data, for the record p.  A
\* ValueError leaves the loop and scrape_league_season; main() (line 446)
\* answers it with session.rollback(), scrape_all_leagues (line 399) does not.
U_process_record(p, league_id, season_id, h, caller) ==
    LET player == PlayerByUnderstatId(p.id)
        newPlayer == player = Null
        player_id == IF newPlayer THEN Len(players) + 1 ELSE player
        team_name == first_team_name(p.team_title)
        hashes == TeamByName(team_name) = Null
        t == U_team_for_name(team_name, league_id, h)
        team_id == t[2]
        committed == IF newPlayer \/ t[3] THEN pstats ELSE savedP
        existing == PStatsOf(player_id, season_id, team_id)
        added == IF existing # Null THEN pstats
                 ELSE Append(pstats, [player_id |-> player_id, team_id |-> team_id,
                                      season_id |-> season_id,
                                      games |-> Null, goals |-> Null])
        stats == IF existing # Null THEN existing ELSE Len(pstats) + 1
        u == U_update_stats(added[stats], p)
        updated == [added EXCEPT ![stats] = u[1]]
    IN  /\ league_id \in 1..Len(leagues)
        /\ season_id \in 1..Len(seasons)
        /\ seasons[season_id].league_id = league_id
        /\ IF hashes THEN h \in HashVals ELSE h = 0
        /\ players' = IF newPlayer
                      THEN Append(players, [understat_id |-> p.id, name |-> p.player_name])
                      ELSE players
        /\ teams' = t[1]
        /\ pstats' = IF u[2] /\ caller = "main" THEN committed ELSE updated
        /\ savedP' = committed
        /\ UNCHANGED procs
        /\ call' = [op |-> "process_player", key |-> <<p.id, team_name, season_id>>,
                    ret |-> team_id, raised |-> u[2], metrics |-> <<p.games, p.goals>>,
                    name |-> p.player_name]
        /\ UNCHANGED <<leagues, seasons, wsplayers, wsstats, savedW>>

\* a record processed on its own, whatever the scrape it belongs to
U_process_player(p, league_id, season_id, h, caller) ==
    /\ U_process_record(p, league_id, season_id, h, caller)
    /\ UNCHANGED <<batch, matches>>

\* no scrape under way
NoBatch == [state |-> "idle", recs |-> <<>>, pos |-> 0, league_id |-> Null,
            season_id |-> Null, caller |-> "none"]

\* scrape_league_season has fetched playersData and enters _process_players_data
U_scrape_begin(recs, league_id, season_id, caller) ==
    /\ batch.state # "running"
    /\ league_id \in 1..Len(leagues)
    /\ season_id \in 1..Len(seasons)
    /\ seasons[season_id].league_id = league_id
    /\ UNCHANGED matches
    /\ batch' = [state |-> "running", recs |-> recs, pos |-> 1, league_id |-> league_id,
                 season_id |-> season_id, caller |-> caller]
    /\ call' = [op |-> "scrape_begin", key |-> <<>>, ret |-> Null, raised |-> FALSE]
    /\ UNCHANGED <<leagues, seasons, teams, players, pstats, wsplayers, wsstats,
                   savedP, savedW, procs>>

\* one round of the loop `for p in players_data`; an exception leaves the
\* loop and scrape_league_season, and the caller's except clause ends the scrape
U_scrape_step(h) ==
    /\ batch.state = "running"
    /\ batch.pos <= Len(batch.recs)
    /\ U_process_record(batch.recs[batch.pos], batch.league_id, batch.season_id, h,
                        batch.caller)
    /\ UNCHANGED matches
    /\ batch' = IF call'.raised THEN [batch EXCEPT !.state = "aborted"]
                ELSE [batch EXCEPT !.pos = batch.pos + 1]

\* the loop is over: session.commit() at line 174
U_scrape_end ==
    /\ batch.state = "running"
    /\ batch.pos > Len(batch.recs)
    /\ savedP' = pstats
    /\ UNCHANGED matches
    /\ batch' = [batch EXCEPT !.state = "done"]
    /\ call' = [op |-> "scrape_end", key |-> <<>>, ret |-> Null, raised |-> FALSE]
    /\ UNCHANGED <<leagues, seasons, teams, players, pstats, wsplayers, wsstats,
                   savedW, procs>>

\* session.commit() at the end of scrape_league_season (line 174)
U_commit ==
    /\ savedP # pstats
    /\ savedP' = pstats
    /\ UNCHANGED <<procs, batch, matches>>
    /\ call' = [op |-> "commit", key |-> <<>>, ret |-> Null, raised |-> FALSE]
    /\ UNCHANGED <<leagues, seasons, teams, players, pstats, wsplayers, wsstats,
                   savedW>>

(***************************************************************************)
(* data_merge: the player resolver and the link maintainer                 *)
(***************************************************************************)
\* the fuzzy loop of find_matching_player (lines 121-131) over rows i..Len:
\* a row replaces the best so far only with a strictly greater score that
\* reaches the threshold.  best is a row id or Null, best_score a fraction.
\* (mutant) the fuzzy loop without the threshold test
RECURSIVE FuzzyPlayerNoThreshold(_, _, _, _, _)
FuzzyPlayerNoThreshold(i, player_name, pct, best_match, best_score) ==
    IF i > Len(players) THEN best_match
    ELSE LET score == similarity_score(player_name, players[i].name) IN
         IF ScoreGt(score, best_score)
         THEN FuzzyPlayerNoThreshold(i + 1, player_name, pct, i, score)
         ELSE FuzzyPlayerNoThreshold(i + 1, player_name, pct, best_match, best_score)

\* (mutant) the fuzzy loop where a later row of equal score replaces the best
RECURSIVE FuzzyPlayerLastWins(_, _, _, _, _)
FuzzyPlayerLastWins(i, player_name, pct, best_match, best_score) ==
    IF i > Len(players) THEN best_match
    ELSE LET score == similarity_score(player_name, players[i].name) IN
         IF ~ScoreGt(best_score, score) /\ ScoreGePct(score, pct)
         THEN FuzzyPlayerLastWins(i + 1, player_name, pct, i, score)
         ELSE FuzzyPlayerLastWins(i + 1, player_name, pct, best_match, best_score)

\* (mutant) the fuzzy loop accepting the scores below the threshold
RECURSIVE FuzzyPlayerBelowThreshold(_, _, _, _, _)
FuzzyPlayerBelowThreshold(i, player_name, pct, best_match, best_score) ==
    IF i > Len(players) THEN best_match
    ELSE LET score == similarity_score(player_name, players[i].name) IN
         IF ScoreGt(score, best_score) /\ ~ScoreGePct(score, pct)
         THEN FuzzyPlayerBelowThreshold(i + 1, player_name, pct, i, score)
         ELSE FuzzyPlayerBelowThreshold(i + 1, player_name, pct, best_match, best_score)

RECURSIVE FuzzyPlayer(_, _, _, _, _)
FuzzyPlayer(i, player_name, pct, best_match, best_score) ==
    IF i > Len(players) THEN best_match
    ELSE LET score == similarity_score(player_name, players[i].name) IN
         IF ScoreGt(score, best_score) /\ ScoreGePct(score, pct)
         THEN FuzzyPlayer(i + 1, player_name, pct, i, score)
         ELSE FuzzyPlayer(i + 1, player_name, pct, best_match, best_score)

\* find_matching_player: func.lower(Player.name) == player_name.lower(), else
\* the fuzzy loop.  The id of the Player found, or Null.
find_matching_player(player_name, pct) ==
    LET player == First(players, LAMBDA r : SqlLower(r.name) = PyLower(player_name)) IN
    IF player # Null THEN player
    ELSE FuzzyPlayer(1, player_name, pct, Null, <<0, 1>>)

\* (mutant) the maintainer's scan without its filter on unlinked rows
AllWsRows == 1..Len(wsplayers)

Unlinked == Rows(wsplayers, LAMBDA r : r.understat_player_id = Null)

\* the rows of WhoScoredPlayer after the loop of lines 144-148
LinkedRows(pct) ==
    [i \in 1..Len(wsplayers) |->
        IF i \in Unlinked /\ find_matching_player(wsplayers[i].name, pct) # Null
        THEN [wsplayers[i] EXCEPT
                 !.understat_player_id = find_matching_player(wsplayers[i].name, pct)]
        ELSE wsplayers[i]]

\* linked_count after the loop of lines 143-148
linked_count(pct) ==
    Cardinality({i \in Unlinked : find_matching_player(wsplayers[i].name, pct) # Null})

\* (mutant) the maintainer counting every row it considers
link_counting_considered(pct) ==
    /\ wsplayers' = LinkedRows(pct)
    /\ UNCHANGED <<procs, batch, matches>>
    /\ call' = [op |-> "link", key |-> <<pct>>, ret |-> Cardinality(Unlinked),
                raised |-> FALSE]
    /\ UNCHANGED <<leagues, seasons, teams, players, pstats, wsstats,
                   savedP, savedW>>

\* link_whoscored_to_understat_players; returns linked_count
link_whoscored_to_understat_players(pct) ==
    /\ wsplayers' = LinkedRows(pct)
    /\ UNCHANGED <<procs, batch, matches>>
    /\ call' = [op |-> "link", key |-> <<pct>>, ret |-> linked_count(pct),
                raised |-> FALSE]
    /\ UNCHANGED <<leagues, seasons, teams, players, pstats, wsstats,
                   savedP, savedW>>

(***************************************************************************)
(* UnderstatScraper._process_matches_data                                  *)
(***************************************************************************)
MatchByUnderstatId(uid) == First(matches, LAMBDA r : r.understat_id = uid)

\* the Match row built from a datesData record (lines 313-324)
NewMatch(m, season_id) ==
    [understat_id |-> m.id, season_id |-> season_id,
     home_team_id |-> TeamByName(m.h), away_team_id |-> TeamByName(m.a),
     home_goals |-> IF m.isResult THEN UnderstatInt(m.h_goals) ELSE Null,
     away_goals |-> IF m.isResult THEN UnderstatInt(m.a_goals) ELSE Null,
     is_result |-> m.isResult]

\* (mutant) a round of the loop that brings a stored match up to date
U_process_match_updating(m, season_id) ==
    LET existing == MatchByUnderstatId(m.id)
        found == TeamByName(m.h) # Null /\ TeamByName(m.a) # Null
        raises == /\ m.isResult
                  /\ UnderstatIntRaises(m.h_goals) \/ UnderstatIntRaises(m.a_goals)
    IN  /\ season_id \in 1..Len(seasons)
        /\ matches' = IF ~found \/ raises THEN matches
                       ELSE IF existing # Null
                            THEN [matches EXCEPT ![existing] = NewMatch(m, season_id)]
                       ELSE Append(matches, NewMatch(m, season_id))
        /\ call' = [op |-> "process_match", key |-> <<m.id, m.h, m.a, m.isResult>>,
                    ret |-> IF existing # Null THEN existing ELSE Null,
                    raised |-> found /\ raises]
        /\ UNCHANGED <<leagues, seasons, teams, players, pstats, wsplayers, wsstats,
                       savedP, savedW, procs, batch>>

\* One round of the loop of _process_matches_data, for the record m: a
\* stored understat_id or a team name that no Team has skips the record.
\* call.ret is the stored row that made the loop skip, or Null.
U_process_match(m, season_id) ==
    LET existing == MatchByUnderstatId(m.id)
        found == TeamByName(m.h) # Null /\ TeamByName(m.a) # Null
        raises == /\ m.isResult
                  /\ UnderstatIntRaises(m.h_goals) \/ UnderstatIntRaises(m.a_goals)
    IN  /\ season_id \in 1..Len(seasons)
        /\ matches' = IF existing # Null \/ ~found \/ raises THEN matches
                       ELSE Append(matches, NewMatch(m, season_id))
        /\ call' = [op |-> "process_match", key |-> <<m.id, m.h, m.a, m.isResult>>,
                    ret |-> existing,
                    raised |-> existing = Null /\ found /\ raises]
        /\ UNCHANGED <<leagues, seasons, teams, players, pstats, wsplayers, wsstats,
                       savedP, savedW, procs, batch>>

(***************************************************************************)
(* WhoScoredScraper                                                        *)
(***************************************************************************)
WsPlayerById(whoscored_id) == First(wsplayers, LAMBDA r : r.whoscored_id = whoscored_id)

WsStatsOf(player_id, season_id, team_id) ==
    First(wsstats, LAMBDA r : /\ r.player_id = player_id
                              /\ r.season_id = season_id
                              /\ r.team_id = team_id)

\* scrape_player_defensive_stats, lines 474-478: the league by code, created
\* when absent
W_league(code) ==
    LET league == LeagueByCode(code) IN
    /\ IF league = Null
       THEN /\ leagues' = Append(leagues, [name |-> code])
            /\ savedW' = wsstats
       ELSE UNCHANGED <<leagues, savedW>>
    /\ UNCHANGED <<procs, batch, matches>>
    /\ call' = [op |-> "ws_league", key |-> <<code>>,
                ret |-> IF league = Null THEN Len(leagues) + 1 ELSE league,
                raised |-> FALSE]
    /\ UNCHANGED <<seasons, teams, players, pstats, wsplayers, wsstats, savedP>>

\* _get_season
W_get_season(year, league_id) ==
    LET season == SeasonOf(year, league_id) IN
    /\ league_id \in 1..Len(leagues)
    /\ IF season = Null
       THEN /\ seasons' = Append(seasons, [year |-> year, league_id |-> league_id])
            /\ savedW' = wsstats
       ELSE UNCHANGED <<seasons, savedW>>
    /\ UNCHANGED <<procs, batch, matches>>
    /\ call' = [op |-> "ws_season", key |-> <<league_id, year>>,
                ret |-> IF season = Null THEN Len(seasons) + 1 ELSE season,
                raised |-> FALSE]
    /\ UNCHANGED <<leagues, teams, players, pstats, wsplayers, wsstats, savedP>>

\* Player.name.ilike(f"%{name}%"): lower(name) LIKE lower(pattern), for a
\* name without the wildcards % and _
PlayerNameLike(name) ==
    First(players, LAMBDA r : Contains(SqlLower(r.name), SqlLower(name)))

\* the row _get_or_create_whoscored_player adds for an unknown whoscored_id
new_whoscored_player(whoscored_id, name) ==
    [whoscored_id |-> whoscored_id, name |-> name,
     understat_player_id |-> PlayerNameLike(name)]

\* _get_or_create_whoscored_player
W_get_or_create_whoscored_player(whoscored_id, name) ==
    LET player == WsPlayerById(whoscored_id) IN
    /\ IF player = Null
       THEN /\ wsplayers' = Append(wsplayers, new_whoscored_player(whoscored_id, name))
            /\ savedW' = wsstats
       ELSE UNCHANGED <<wsplayers, savedW>>
    /\ UNCHANGED <<procs, batch, matches>>
    /\ call' = [op |-> "ws_player", key |-> <<whoscored_id>>,
                ret |-> IF player = Null THEN Len(wsplayers) + 1 ELSE player,
                raised |-> FALSE]
    /\ UNCHANGED <<leagues, seasons, teams, players, pstats, wsstats, savedP>>

\* WhoScoredScraper._get_or_create_team without its commit:
\* <<the table afterwards, the team's id, whether a row was created>>
W_team_for_name(name0, league_id, h) ==
    LET name == IF name0 = <<>> THEN Unknown ELSE name0
        exact == TeamByName(name)
        like == First(teams, LAMBDA r : SqlLower(r.name) = SqlLower(name))
        placeholder_id == PlaceholderId(h)
        existing == TeamByUnderstatId(placeholder_id)
    IN  IF exact # Null THEN <<teams, exact, FALSE>>
        ELSE IF like # Null THEN <<teams, like, FALSE>>
        ELSE IF existing # Null THEN <<teams, existing, FALSE>>
        ELSE <<Append(teams, [understat_id |-> placeholder_id,
                              name |-> name, league_id |-> league_id]),
               Len(teams) + 1, TRUE>>

\* whether _get_or_create_team(name) gets as far as hash(f"ws_{name}")
W_team_hashes(name0) ==
    LET name == IF name0 = <<>> THEN Unknown ELSE name0 IN
    /\ TeamByName(name) = Null
    /\ First(teams, LAMBDA r : SqlLower(r.name) = SqlLower(name)) = Null

\* _get_or_create_team
W_get_or_create_team(name, league_id, h) ==
    LET t == W_team_for_name(name, league_id, h) IN
    /\ league_id \in 1..Len(leagues)
    /\ IF W_team_hashes(name) THEN h \in HashVals ELSE h = 0
    /\ teams' = t[1]
    /\ savedW' = IF t[3] THEN wsstats ELSE savedW
    /\ UNCHANGED <<procs, batch, matches>>
    /\ call' = [op |-> "ws_team", key |-> <<IF name = <<>> THEN Unknown ELSE name>>,
                ret |-> t[2], raised |-> FALSE]
    /\ UNCHANGED <<leagues, seasons, players, pstats, wsplayers, wsstats, savedP>>

\* _populate_defensive_stats, for the games and tackles columns: the table
\* shows tackles per game, the row stores the estimated total
_populate_defensive_stats(stats, row) ==
    LET games == _safe_int(row.apps)
        tackles_pg == _safe_int(row.tackles)
    IN  [stats EXCEPT !.games = games,
                      !.tackles = tackles_pg * (IF games = 0 THEN 1 ELSE games)]

\* One round of the loop of _extract_players_from_table (lines 866-898)
W_process_row(row, league_id, season_id, h) ==
    LET player == WsPlayerById(row.playerId)
        newPlayer == player = Null
        player_id == IF newPlayer THEN Len(wsplayers) + 1 ELSE player
        t == W_team_for_name(row.teamName, league_id, h)
        team_id == t[2]
        existing == WsStatsOf(player_id, season_id, team_id)
        added == IF existing # Null THEN wsstats
                 ELSE Append(wsstats, [player_id |-> player_id, team_id |-> team_id,
                                       season_id |-> season_id,
                                       games |-> Null, tackles |-> Null])
        stats == IF existing # Null THEN existing ELSE Len(wsstats) + 1
    IN  /\ league_id \in 1..Len(leagues)
        /\ season_id \in 1..Len(seasons)
        /\ seasons[season_id].league_id = league_id
        /\ row.playerName # <<>>
        /\ IF W_team_hashes(row.teamName) THEN h \in HashVals ELSE h = 0
        /\ wsplayers' = IF newPlayer
                        THEN Append(wsplayers,
                                    new_whoscored_player(row.playerId, row.playerName))
                        ELSE wsplayers
        /\ teams' = t[1]
        /\ wsstats' = [added EXCEPT ![stats] = _populate_defensive_stats(added[stats], row)]
        /\ savedW' = IF newPlayer \/ t[3] THEN wsstats ELSE savedW
        /\ UNCHANGED <<procs, batch, matches>>
        /\ call' = [op |-> "ws_process_row",
                    key |-> <<row.playerId,
                              IF row.teamName = <<>> THEN Unknown ELSE row.teamName,
                              season_id>>,
                    ret |-> team_id, raised |-> FALSE,
                    metrics |-> <<row.apps, row.tackles>>]
        /\ UNCHANGED <<leagues, seasons, players, pstats, savedP>>

\* session.commit() at the end of _scrape_player_stats_table (line 681)
W_commit ==
    /\ savedW # wsstats
    /\ savedW' = wsstats
    /\ UNCHANGED <<procs, batch, matches>>
    /\ call' = [op |-> "ws_commit", key |-> <<>>, ret |-> Null, raised |-> FALSE]
    /\ UNCHANGED <<leagues, seasons, teams, players, pstats, wsplayers, wsstats,
                   savedP>>

\* The scraper processes exit: what their sessions had not committed is gone.
Restart ==
    /\ pstats # savedP \/ wsstats # savedW
    /\ pstats' = savedP
    /\ wsstats' = savedW
    /\ UNCHANGED <<procs, batch, matches>>
    /\ call' = [op |-> "restart", key |-> <<>>, ret |-> Null, raised |-> FALSE]
    /\ UNCHANGED <<leagues, seasons, teams, players, wsplayers, savedP, savedW>>

(***************************************************************************)
(* Two scraper processes on the one database file.  Each has its own       *)
(* session; a get-or-create method is two steps on the shared store: the   *)
(* query (.first()), then, when the query found nothing, session.add and   *)
(* session.commit.  The store enforces the unique constraints that         *)
(* database.py declares: Team.understat_id is unique, Season has none.     *)
(* Nothing in these methods catches IntegrityError.                        *)
(***************************************************************************)
Procs == {1, 2}

Idle == [pc |-> "idle", op |-> "none", args |-> <<>>, found |-> Null]

\* what the query of the method returns
Found(op, args) ==
    CASE op \in {"season", "ws_season"} -> SeasonOf(args[1], args[2])
      [] op = "team" -> TeamByUnderstatId(args[1])

\* whether the INSERT breaks a unique constraint of its table
UniqueViolation(op, args) ==
    CASE op \in {"season", "ws_season"} -> FALSE
      [] op = "team" -> TeamByUnderstatId(args[1]) # Null

\* the row that the method adds
NewRow(op, args) ==
    CASE op \in {"season", "ws_season"} -> [year |-> args[1], league_id |-> args[2]]
      [] op = "team" -> [understat_id |-> args[1], name |-> args[2], league_id |-> args[3]]

\* process p enters a get-or-create method and runs its query
C_query(p, op, args) ==
    /\ procs[p].pc = "idle"
    /\ procs' = [procs EXCEPT ![p] = [pc |-> "queried", op |-> op, args |-> args,
                                       found |-> Found(op, args)]]
    /\ call' = [op |-> "query", key |-> <<p>>, ret |-> Found(op, args), raised |-> FALSE]
    /\ UNCHANGED <<leagues, seasons, teams, players, pstats, wsplayers, wsstats,
                   savedP, savedW, batch, matches>>

\* the query found a row: the method returns it
C_return(p) ==
    /\ procs[p].pc = "queried"
    /\ procs[p].found # Null
    /\ procs' = [procs EXCEPT ![p].pc = "done"]
    /\ call' = [op |-> "return", key |-> <<p, procs[p].op>>, ret |-> procs[p].found,
                raised |-> FALSE]
    /\ UNCHANGED <<leagues, seasons, teams, players, pstats, wsplayers, wsstats,
                   savedP, savedW, batch, matches>>

\* the query found nothing: session.add and session.commit
C_insert(p) ==
    LET op == procs[p].op
        args == procs[p].args
        fails == UniqueViolation(op, args)
        add(table) == IF fails THEN table ELSE Append(table, NewRow(op, args))
        id == CASE op \in {"season", "ws_season"} -> Len(seasons) + 1
                [] op = "team" -> Len(teams) + 1
    IN  /\ procs[p].pc = "queried"
        /\ procs[p].found = Null
        /\ seasons' = IF op \in {"season", "ws_season"} THEN add(seasons) ELSE seasons
        /\ teams' = IF op = "team" THEN add(teams) ELSE teams
        /\ procs' = [procs EXCEPT ![p].pc = IF fails THEN "failed" ELSE "done",
                                   ![p].found = IF fails THEN Null ELSE id]
        /\ call' = [op |-> "insert", key |-> <<p, op>>, ret |-> procs'[p].found,
                    raised |-> fails]
        /\ UNCHANGED <<leagues, players, pstats, wsplayers, wsstats, savedP, savedW, batch, matches>>

\* the method has returned or the process has died of the exception; the
\* process (or the next run in its place) is ready for another call
C_next(p) ==
    /\ procs[p].pc \in {"done", "failed"}
    /\ procs' = [procs EXCEPT ![p] = Idle]
    /\ call' = [op |-> "next", key |-> <<p>>, ret |-> Null, raised |-> FALSE]
    /\ UNCHANGED <<leagues, seasons, teams, players, pstats, wsplayers, wsstats,
                   savedP, savedW, batch, matches>>

(***************************************************************************)
(* The Link Maintainer's scan sharded over the scraper processes: each     *)
(* process runs the loop of link_whoscored_to_understat_players over its   *)
(* own subset of the unlinked rows, one row a step.  A process's args are  *)
(* <<its rows, the threshold, the table at the start>>, found is its       *)
(* position in its rows.                                                   *)
(***************************************************************************)
\* (mutant) the loop body that leaves alone a Player some row is linked to
link_row_one_to_one(table, w, pct) ==
    LET understat_player == find_matching_player(table[w].name, pct) IN
    IF /\ understat_player # Null
       /\ \A x \in 1..Len(table) : table[x].understat_player_id # understat_player
    THEN [table EXCEPT ![w].understat_player_id = understat_player]
    ELSE table

\* the loop body (lines 144-148) for the row w: the table afterwards
link_row(table, w, pct) ==
    LET understat_player == find_matching_player(table[w].name, pct) IN
    IF understat_player # Null
    THEN [table EXCEPT ![w].understat_player_id = understat_player]
    ELSE table

\* the unlinked rows are split between the processes
L_shard_begin(assign, pct) ==
    /\ \A p \in Procs : procs[p].pc = "idle"
    /\ Unlinked # {}
    /\ assign \in [Unlinked -> Procs]
    /\ procs' = [p \in Procs |->
                    [op |-> "link", pc |-> "linking", found |-> 1,
                     args |-> <<SelectSeq([i \in 1..Len(wsplayers) |-> i],
                                          LAMBDA i : i \in Unlinked /\ assign[i] = p),
                                pct, wsplayers>>]]
    /\ call' = [op |-> "shard_begin", key |-> <<pct>>, ret |-> Null, raised |-> FALSE]
    /\ UNCHANGED <<leagues, seasons, teams, players, pstats, wsplayers, wsstats,
                   savedP, savedW, batch, matches>>

\* process p runs the loop body for the next row of its subset
L_shard_step(p) ==
    /\ procs[p].pc = "linking"
    /\ procs[p].found <= Len(procs[p].args[1])
    /\ wsplayers' = link_row(wsplayers, procs[p].args[1][procs[p].found], procs[p].args[2])
    /\ procs' = [procs EXCEPT ![p].found = procs[p].found + 1]
    /\ call' = [op |-> "shard_step", key |-> <<p, procs[p].args[1][procs[p].found]>>,
                ret |-> Null, raised |-> FALSE]
    /\ UNCHANGED <<leagues, seasons, teams, players, pstats, wsstats,
                   savedP, savedW, batch, matches>>

\* process p has gone through its subset: session.commit() (line 150)
L_shard_end(p) ==
    /\ procs[p].pc = "linking"
    /\ procs[p].found > Len(procs[p].args[1])
    /\ procs' = [procs EXCEPT ![p].pc = "done"]
    /\ call' = [op |-> "shard_end", key |-> <<p>>, ret |-> Null, raised |-> FALSE]
    /\ UNCHANGED <<leagues, seasons, teams, players, pstats, wsplayers, wsstats,
                   savedP, savedW, batch, matches>>

\* every process has ended its subset: the sharded run is over
L_shard_finish ==
    /\ \A p \in Procs : procs[p].op = "link" /\ procs[p].pc = "done"
    /\ procs' = [p \in Procs |-> Idle]
    /\ call' = [op |-> "shard_finish", key |-> <<>>, ret |-> Null, raised |-> FALSE]
    /\ UNCHANGED <<leagues, seasons, teams, players, pstats, wsplayers, wsstats,
                   savedP, savedW, batch, matches>>

(***************************************************************************)
(* Inputs                                                                  *)
(***************************************************************************)
MaxRows == 3
MaxStats == 2
MaxBatch == 2

LeagueCodes == {"EPL", "La_liga"}

Years == {2024, 2025}

\* Understat's ids of teams and of players, WhoScored's ids of players
TeamIds == {83, 84}

PlayerIds == {7, 8}

WsIds == {11, 12}

Roma == <<"R","o","m","a">>
RomaLower == <<"r","o","m","a">>
ASRoma == <<"A","S"," ","R","o","m","a">>

TeamNames == {Roma, RomaLower, ASRoma}

Abe == <<"A","b","e">>
Abel == <<"A","b","e","l">>
AbeLower == <<"a","b","e">>
Ab == <<"A","b">>
Zed == <<"Z","e","d">>

PlayerNames == {Abe, Abel}

WsNames == {AbeLower, Ab, Zed}


\* link_whoscored_to_understat_players' default threshold, and a laxer one
Thresholds == {80, 85}

(***************************************************************************)
(* data_merge: the team resolver                                           *)
(***************************************************************************)
Tottenham == <<"T","o","t","t","e","n","h","a","m">>
TottenhamHotspur == <<"T","o","t","t","e","n","h","a","m"," ","H","o","t","s","p","u","r">>
Spurs == <<"S","p","u","r","s">>
BayernMunich == <<"B","a","y","e","r","n"," ","M","u","n","i","c","h">>
BayernMunchen == <<"B","a","y","e","r","n"," ","M","u00FC","n","c","h","e","n">>
FCBayern == <<"F","C"," ","B","a","y","e","r","n">>
ASMonaco == <<"A","S"," ","M","o","n","a","c","o">>
Monaco == <<"M","o","n","a","c","o">>

\* (mutant) the map without the alias "Bayern M\u00FCnchen"
TEAM_NAME_MAP_without_Munchen ==
    << <<Tottenham, TottenhamHotspur, Spurs>>,
       <<BayernMunich, FCBayern>>,
       <<ASRoma, Roma>>,
       <<ASMonaco, Monaco>> >>

\* TEAM_NAME_MAP: four of its groups, in the dict's order, each as
\* [canonical] + aliases
TEAM_NAME_MAP ==
    << <<Tottenham, TottenhamHotspur, Spurs>>,
       <<BayernMunich, BayernMunchen, FCBayern>>,
       <<ASRoma, Roma>>,
       <<ASMonaco, Monaco>> >>

\* session.query(Team).filter(func.lower(Team.name) == name.lower()).first()
TeamByLower(name) == First(teams, LAMBDA r : SqlLower(r.name) = PyLower(name))

\* the loop `for name in all_names` (lines 91-94), from the i-th name on
RECURSIVE AliasNames(_, _)
AliasNames(all_names, i) ==
    IF i > Len(all_names) THEN Null
    ELSE IF TeamByLower(all_names[i]) # Null THEN TeamByLower(all_names[i])
    ELSE AliasNames(all_names, i + 1)

\* the loop over TEAM_NAME_MAP.items() (lines 87-94), from the g-th group on
RECURSIVE AliasTeam(_, _)
AliasTeam(team_name, g) ==
    IF g > Len(TEAM_NAME_MAP) THEN Null
    ELSE LET all_names == TEAM_NAME_MAP[g]
             hit == \E i \in 1..Len(all_names) :
                       normalize_name(all_names[i]) = normalize_name(team_name)
             team == IF hit THEN AliasNames(all_names, 1) ELSE Null
         IN  IF team # Null THEN team ELSE AliasTeam(team_name, g + 1)

\* the fuzzy loop of find_matching_team (lines 96-107) over rows i..Len
RECURSIVE FuzzyTeam(_, _, _, _, _)
FuzzyTeam(i, team_name, pct, best_match, best_score) ==
    IF i > Len(teams) THEN best_match
    ELSE LET score == similarity_score(team_name, teams[i].name) IN
         IF ScoreGt(score, best_score) /\ ScoreGePct(score, pct)
         THEN FuzzyTeam(i + 1, team_name, pct, i, score)
         ELSE FuzzyTeam(i + 1, team_name, pct, best_match, best_score)

\* (mutant) find_matching_team without its exact step
find_matching_team_without_exact(team_name, pct) ==
    IF AliasTeam(team_name, 1) # Null THEN AliasTeam(team_name, 1)
    ELSE FuzzyTeam(1, team_name, pct, Null, <<0, 1>>)

\* find_matching_team: the id of the Team found, or Null
find_matching_team(team_name, pct) ==
    IF TeamByLower(team_name) # Null THEN TeamByLower(team_name)
    ELSE IF AliasTeam(team_name, 1) # Null THEN AliasTeam(team_name, 1)
    ELSE FuzzyTeam(1, team_name, pct, Null, <<0, 1>>)

\* a caller asks the resolver for a team
resolve_team(team_name, pct) ==
    /\ call' = [op |-> "find_team", key |-> <<team_name, pct>>,
                ret |-> find_matching_team(team_name, pct), raised |-> FALSE]
    /\ UNCHANGED <<leagues, seasons, teams, players, pstats, wsplayers, wsstats,
                   savedP, savedW, procs, batch, matches>>

\* a caller asks the resolver for a player
resolve_player(player_name, pct) ==
    /\ call' = [op |-> "find_player", key |-> <<player_name, pct>>,
                ret |-> find_matching_player(player_name, pct), raised |-> FALSE]
    /\ UNCHANGED <<leagues, seasons, teams, players, pstats, wsplayers, wsstats,
                   savedP, savedW, procs, batch, matches>>

\* a caller normalizes a name
apply_normalize_name(name) ==
    /\ call' = [op |-> "normalize", key |-> <<name>>, ret |-> normalize_name(name),
                raised |-> FALSE]
    /\ UNCHANGED <<leagues, seasons, teams, players, pstats, wsplayers, wsstats,
                   savedP, savedW, procs, batch, matches>>

\* a caller scores two names
apply_similarity_score(name1, name2) ==
    /\ call' = [op |-> "similarity", key |-> <<name1, name2>>,
                ret |-> similarity_score(name1, name2), raised |-> FALSE]
    /\ UNCHANGED <<leagues, seasons, teams, players, pstats, wsplayers, wsstats,
                   savedP, savedW, procs, batch, matches>>

(***************************************************************************)
(* export_for_ml: the joined rows, sorted by tackles and reduced to one    *)
(* row per (player_id, season_id).                                         *)
(***************************************************************************)
\* the WhoScoredPlayer rows linked to a Player, in rowid order, or <<Null>>
\* (LEFT JOIN whoscored_players wp ON wp.understat_player_id = ps.player_id)
JoinWp(ps) ==
    LET ids == {w \in 1..Len(wsplayers) :
                    wsplayers[w].understat_player_id = pstats[ps].player_id}
    IN  IF ids = {} THEN <<Null>>
        ELSE SelectSeq([w \in 1..Len(wsplayers) |-> w], LAMBDA w : w \in ids)

\* the WhoScored stats rows of wp in the season of ps, or <<Null>>
\* (LEFT JOIN ... ws ON ws.player_id = wp.id AND ws.season_id = ps.season_id)
JoinWs(ps, wp) ==
    LET ids == {x \in 1..Len(wsstats) :
                    /\ wp # Null
                    /\ wsstats[x].player_id = wp
                    /\ wsstats[x].season_id = pstats[ps].season_id}
    IN  IF ids = {} THEN <<Null>>
        ELSE SelectSeq([x \in 1..Len(wsstats) |-> x], LAMBDA x : x \in ids)

\* one row of the query's result
JoinedRow(ps, ws) ==
    [player_id |-> pstats[ps].player_id, season_id |-> pstats[ps].season_id,
     team_id |-> pstats[ps].team_id, goals |-> pstats[ps].goals,
     tackles |-> IF ws = Null THEN Null ELSE wsstats[ws].tackles]

RECURSIVE JoinWsRows(_, _, _)
JoinWsRows(ps, wps, i) ==
    IF i > Len(wps) THEN <<>>
    ELSE LET wss == JoinWs(ps, wps[i]) IN
         [k \in 1..Len(wss) |-> JoinedRow(ps, wss[k])] \o JoinWsRows(ps, wps, i + 1)

\* pd.read_sql_query (lines 7-41): the rows of player_season_stats, each
\* with the tackles of every WhoScored stats row joined to it
RECURSIVE read_sql_query(_)
read_sql_query(ps) ==
    IF ps > Len(pstats) THEN <<>>
    ELSE JoinWsRows(ps, JoinWp(ps), 1) \o read_sql_query(ps + 1)

\* a sorts before b under sort_values('tackles', ascending=False): NaN last
TacklesBefore(a, b) ==
    a.tackles # Null /\ (b.tackles = Null \/ a.tackles > b.tackles)

\* the orders of the rows `rest` in which no row comes after a row that
\* sorts after it
RECURSIVE OrdersOf(_, _, _)
OrdersOf(df, rest, ascending) ==
    IF rest = {} THEN {<<>>}
    ELSE UNION {{<<i>> \o o : o \in OrdersOf(df, rest \ {i}, ascending)} :
                   i \in {i \in rest : \A j \in rest :
                              IF ascending THEN ~TacklesBefore(df[i], df[j])
                              ELSE ~TacklesBefore(df[j], df[i])}}

\* the rows without tackles, in the order read: sorting puts them last
\* (na_position='last') and leaves them in that order
NaNRows(df) == SelectSeq([i \in 1..Len(df) |-> i], LAMBDA i : df[i].tackles = Null)

\* (mutant) the order of sort_values('tackles', ascending=True)
SortedOrders_ascending(df) ==
    {o \o NaNRows(df) :
        o \in OrdersOf(df, {i \in 1..Len(df) : df[i].tackles # Null}, TRUE)}

\* the orders df.sort_values('tackles', ascending=False) can give: the
\* default kind is 'quicksort', which is not a stable sort, so rows of
\* equal tackles come in any order
SortedOrders(df) ==
    {o \o NaNRows(df) :
        o \in OrdersOf(df, {i \in 1..Len(df) : df[i].tackles # Null}, FALSE)}

\* drop_duplicates(subset=['player_id', 'season_id'], keep='first')
drop_duplicates(df) ==
    SelectSeq([i \in 1..Len(df) |-> i],
              LAMBDA i : \A j \in 1..(i - 1) :
                            \/ df[j].player_id # df[i].player_id
                            \/ df[j].season_id # df[i].season_id)

\* the rows of df in the order o
sort_values(df, o) == [i \in 1..Len(df) |-> df[o[i]]]

\* the script, for the rows df it reads and one order o the sort gives:
\* call.key holds the rows read, call.ret the positions (in the rows read)
\* of the rows written to the CSV
export_for_ml(df, o) ==
    /\ df = read_sql_query(1)
    /\ o \in SortedOrders(df)
    /\ \E kept \in {drop_duplicates(sort_values(df, o))} :
          call' = [op |-> "export", key |-> <<df>>,
                   ret |-> [k \in 1..Len(kept) |-> o[kept[k]]], raised |-> FALSE]
    /\ UNCHANGED <<leagues, seasons, teams, players, pstats, wsplayers, wsstats,
                   savedP, savedW, procs, batch, matches>>

Init ==
    /\ leagues = <<>>
    /\ seasons = <<>>
    /\ teams = <<>>
    /\ players = <<>>
    /\ pstats = <<>>
    /\ wsplayers = <<>>
    /\ wsstats = <<>>
    /\ savedP = <<>>
    /\ savedW = <<>>
    /\ call = [op |-> "init", key |-> <<>>, ret |-> Null, raised |-> FALSE]
    /\ procs = [p \in Procs |-> Idle]
    /\ batch = NoBatch
    /\ matches = <<>>

(***************************************************************************)
(* SpecLink: Player and WhoScoredPlayer rows and the link maintainer.      *)
(* These are all the writers of the two tables: _process_players_data and  *)
(* _extract_players_from_table write them through the two get-or-create    *)
(* methods only.                                                           *)
(***************************************************************************)
NextLink ==
    \/ \E id \in PlayerIds, n \in PlayerNames : U_get_or_create_player(id, n)
    \/ \E id \in WsIds, n \in WsNames : W_get_or_create_whoscored_player(id, n)
    \/ \E pct \in Thresholds : link_whoscored_to_understat_players(pct)

SpecLink == Init /\ [][NextLink]_vars

(***************************************************************************)
(* SpecTeams: every writer of the teams table, with the leagues, seasons   *)
(* and the one player that _process_players_data needs around it.          *)
(***************************************************************************)
TeamRecords ==
    [id : {7}, player_name : {Abe}, team_title : TeamNames, games : {"1"}, goals : {"0"}]

NextTeams ==
    \/ U_get_or_create_league("EPL")
    \/ \E l \in 1..Len(leagues) : U_get_or_create_season(2024, l)
    \/ \E id \in TeamIds, n \in TeamNames, l \in 1..Len(leagues) :
          U_get_or_create_team(id, n, l)
    \/ \E p \in TeamRecords, l \in 1..Len(leagues), s \in 1..Len(seasons),
          h \in HashVals \cup {0} :
          U_process_player(p, l, s, h, "main") /\ Len(pstats') <= MaxStats
    \/ \E n \in TeamNames, l \in 1..Len(leagues), h \in HashVals \cup {0} :
          W_get_or_create_team(n, l, h)

SpecTeams == Init /\ [][NextTeams]_vars

(***************************************************************************)
(* SpecStats: the two ingestion loops that write season statistics, the    *)
(* commits that end a scrape and the end of a scraper process.             *)
(***************************************************************************)
StatsRecords ==
    [id : {7}, player_name : {Abe}, team_title : {Roma},
     games : {"1", "2"}, goals : {"1", "-"}]

StatsRows ==
    [playerId : {11}, playerName : {AbeLower}, teamName : {Roma},
     apps : {"1", "2"}, tackles : {"2", "-"}]

NextStats ==
    \/ U_get_or_create_league("EPL")
    \/ \E l \in 1..Len(leagues) : U_get_or_create_season(2024, l)
    \/ \E p \in StatsRecords, l \in 1..Len(leagues), s \in 1..Len(seasons),
          h \in {0, 5}, caller \in {"main", "scrape_all_leagues"} :
          U_process_player(p, l, s, h, caller)
    \/ \E r \in StatsRows, l \in 1..Len(leagues), s \in 1..Len(seasons),
          h \in {0, 5} : W_process_row(r, l, s, h)
    \/ U_commit
    \/ W_commit
    \/ Restart

SpecStats == Init /\ [][NextStats]_vars

(***************************************************************************)
(* SpecConc: two processes inside the get-or-create methods of Season and  *)
(* Team, after a run that stored the league.                               *)
(***************************************************************************)
NextConc ==
    \/ U_get_or_create_league("EPL")
    \/ \E p \in Procs :
        \/ \E year \in Years, l \in 1..Len(leagues) :
              C_query(p, "season", <<year, l>>)
        \/ \E year \in Years, l \in 1..Len(leagues) :
              C_query(p, "ws_season", <<year, l>>)
        \/ \E l \in 1..Len(leagues) : C_query(p, "team", <<83, Roma, l>>)
        \/ C_return(p)
        \/ C_insert(p)
        \/ C_next(p)

SpecConc == Init /\ [][NextConc]_vars

(***************************************************************************)
(* SpecBatch: scrape_league_season, record by record, as main() and as     *)
(* scrape_all_leagues call it.                                             *)
(***************************************************************************)
BatchRecords ==
    [id : {7}, player_name : PlayerNames, team_title : {Roma},
     games : {"1"}, goals : {"1", "-"}]
    \cup [id : {8}, player_name : {Abel}, team_title : {Roma},
          games : {"1"}, goals : {"1", "-"}]

\* playersData holds one record for a player
Batches ==
    {recs \in UNION {[1..n -> BatchRecords] : n \in 1..MaxBatch} :
        \A i, j \in 1..Len(recs) : recs[i].id = recs[j].id => i = j}

NextBatch ==
    \/ U_get_or_create_league("EPL")
    \/ \E l \in 1..Len(leagues) : U_get_or_create_season(2024, l)
    \/ \E n \in {Roma, ASRoma}, l \in 1..Len(leagues) :
          U_get_or_create_team(83, n, l) /\ batch.state = "idle"
    \/ \E recs \in Batches, l \in 1..Len(leagues), s \in 1..Len(seasons),
          caller \in {"main", "scrape_all_leagues"} : U_scrape_begin(recs, l, s, caller)
    \/ \E h \in {0, 5} : U_scrape_step(h)
    \/ U_scrape_end

SpecBatch == Init /\ [][NextBatch]_vars

(***************************************************************************)
(* SpecTeamResolver: Team rows as Understat stores them, and callers of    *)
(* find_matching_team.                                                     *)
(***************************************************************************)
Bayern == <<"B","a","y","e","r","n">>

StoredTeamNames == {Tottenham, Spurs, BayernMunich, BayernMunchen, FCBayern}

TeamQueries == StoredTeamNames \cup {Bayern}

NextTeamResolver ==
    \/ U_get_or_create_league("EPL")
    \/ \E id \in TeamIds, n \in StoredTeamNames, l \in 1..Len(leagues) :
          U_get_or_create_team(id, n, l)
    \/ \E n \in TeamQueries, pct \in Thresholds : resolve_team(n, pct)

SpecTeamResolver == Init /\ [][NextTeamResolver]_vars

(***************************************************************************)
(* SpecFuzzy: Teams and Players stored under names that differ from the    *)
(* names asked for by a letter or two, and callers of the two resolvers.   *)
(***************************************************************************)
Abed == <<"A","b","e","d">>
Lens == <<"L","e","n","s">>
Leno == <<"L","e","n","o">>
Len_ == <<"L","e","n">>
Le == <<"L","e">>

\* playersData records as <<id, player_name>>
FuzzyPlayerRecords == {<<7, Abel>>, <<8, Abed>>, <<8, Ab>>}

FuzzyPlayerQueries == {Abe, Abel}

\* teamsData records as <<id, title>>
FuzzyTeamRecords == {<<83, Lens>>, <<84, Leno>>, <<84, Le>>}

FuzzyTeamQueries == {Len_, Lens}

\* the two defaults (0.80 teams, 0.85 players) and a stricter threshold
FuzzyThresholds == {80, 85, 90}

NextFuzzy ==
    \/ U_get_or_create_league("EPL")
    \/ \E t \in FuzzyTeamRecords, l \in 1..Len(leagues) :
          U_get_or_create_team(t[1], t[2], l)
    \/ \E p \in FuzzyPlayerRecords : U_get_or_create_player(p[1], p[2])
    \/ \E n \in FuzzyTeamQueries, pct \in FuzzyThresholds : resolve_team(n, pct)
    \/ \E n \in FuzzyPlayerQueries, pct \in FuzzyThresholds : resolve_player(n, pct)

SpecFuzzy == Init /\ [][NextFuzzy]_vars

(***************************************************************************)
(* SpecNorm and SpecSim: callers of the two pure functions of data_merge.  *)
(***************************************************************************)
MaxName == 3

MaxSim == 3

\* the strings over a set of characters, up to a length
StringsOver(chars, n) == UNION {[1..k -> chars] : k \in 0..n}

\* letters of both cases, a blank, accented letters and a combining mark
NormChars == {"A", "b", " ", "u00FC", "u00DC", "u0308"}

SimChars == {"a", "b", "c"}

NextNorm == \E n \in StringsOver(NormChars, MaxName) : apply_normalize_name(n)

SpecNorm == Init /\ [][NextNorm]_vars

NextSim ==
    \E name1, name2 \in StringsOver(SimChars, MaxSim) :
        apply_similarity_score(name1, name2)

SpecSim == Init /\ [][NextSim]_vars

(***************************************************************************)
(* SpecExport: season statistics of both sources, the links between their  *)
(* players, and the export script run on the store.                        *)
(***************************************************************************)
\* Abe has played for two teams in the season; Zed has no WhoScored row
ExportRecords ==
    [id : {7}, player_name : {Abe}, team_title : {Roma, ASRoma},
     games : {"1"}, goals : {"1"}]
    \cup [id : {8}, player_name : {Zed}, team_title : {Roma},
          games : {"1"}, goals : {"2"}]

ExportRows ==
    [playerId : WsIds, playerName : {AbeLower}, teamName : {Roma},
     apps : {"1"}, tackles : {"1", "2"}]

NextExport ==
    \/ U_get_or_create_league("EPL")
    \/ \E l \in 1..Len(leagues) : U_get_or_create_season(2024, l)
    \/ \E t \in {<<83, Roma>>, <<84, ASRoma>>}, l \in 1..Len(leagues) :
          U_get_or_create_team(t[1], t[2], l)
    \/ \E p \in ExportRecords, l \in 1..Len(leagues), s \in 1..Len(seasons) :
          U_process_player(p, l, s, 0, "main")
    \/ \E r \in ExportRows, l \in 1..Len(leagues), s \in 1..Len(seasons) :
          W_process_row(r, l, s, 0)
    \/ \E df \in {read_sql_query(1)} : \E o \in SortedOrders(df) : export_for_ml(df, o)

SpecExport == Init /\ [][NextExport]_vars

(***************************************************************************)
(* SpecOrder: the records of one Understat batch and the rows of one       *)
(* WhoScored batch, each processed once, in any arrival order.             *)
(***************************************************************************)
OrderRecords ==
    [id : {7}, player_name : {Abe}, team_title : {Roma}, games : {"1"}, goals : {"1"}]
    \cup [id : {8}, player_name : {Abel}, team_title : {Roma},
          games : {"1"}, goals : {"2"}]

OrderRows ==
    [playerId : {11}, playerName : {Ab}, teamName : {Roma},
     apps : {"1"}, tackles : {"1"}]
    \cup [playerId : {12}, playerName : {Zed}, teamName : {Roma},
          apps : {"1"}, tackles : {"2"}]

NextOrder ==
    \/ U_get_or_create_league("EPL")
    \/ \E l \in 1..Len(leagues) : U_get_or_create_season(2024, l)
    \/ \E l \in 1..Len(leagues) : U_get_or_create_team(83, Roma, l)
    \/ \E p \in OrderRecords, l \in 1..Len(leagues), s \in 1..Len(seasons) :
          /\ PlayerByUnderstatId(p.id) = Null
          /\ U_process_player(p, l, s, 0, "main")
    \/ \E r \in OrderRows, l \in 1..Len(leagues), s \in 1..Len(seasons) :
          /\ WsPlayerById(r.playerId) = Null
          /\ W_process_row(r, l, s, 0)

SpecOrder == Init /\ [][NextOrder]_vars

(***************************************************************************)
(* SpecMatches: Teams as _process_teams_data stores them and the records   *)
(* of datesData, a match first as a fixture and later as a result.         *)
(***************************************************************************)
MatchIds == {501, 502}

MatchRecords ==
    [id : MatchIds, h : {Roma, RomaLower}, a : {ASRoma}, isResult : BOOLEAN,
     h_goals : {"2"}, a_goals : {"1"}]

NextMatches ==
    \/ U_get_or_create_league("EPL")
    \/ \E l \in 1..Len(leagues) : U_get_or_create_season(2024, l)
    \/ \E t \in {<<83, Roma>>, <<84, ASRoma>>}, l \in 1..Len(leagues) :
          U_get_or_create_team(t[1], t[2], l)
    \/ \E m \in MatchRecords, s \in 1..Len(seasons) : U_process_match(m, s)

SpecMatches == Init /\ [][NextMatches]_vars

(***************************************************************************)
(* SpecShard: Player and WhoScoredPlayer rows, and the maintainer's scan   *)
(* run in shards.  No Player is created while a sharded run is under way.  *)
(***************************************************************************)
NextShard ==
    \/ \E id \in PlayerIds, n \in PlayerNames :
          /\ \A p \in Procs : procs[p].pc = "idle"
          /\ U_get_or_create_player(id, n)
    \/ \E id \in WsIds, n \in WsNames : W_get_or_create_whoscored_player(id, n)
    \/ \E assign \in [Unlinked -> Procs], pct \in Thresholds : L_shard_begin(assign, pct)
    \/ \E p \in Procs : L_shard_step(p)
    \/ \E p \in Procs : L_shard_end(p)
    \/ L_shard_finish

SpecShard == Init /\ [][NextShard]_vars

(***************************************************************************)
(* SpecUpsert: the get-or-create methods of the two scrapers, on a store   *)
(* of at most MaxRows rows.                                                *)
(***************************************************************************)
RowCount == Len(leagues) + Len(seasons) + Len(teams) + Len(players) + Len(wsplayers)

NextUpsert ==
    \/ \E code \in LeagueCodes :
          U_get_or_create_league(code) /\ RowCount' <= MaxRows
    \/ \E year \in Years, l \in 1..Len(leagues) :
          U_get_or_create_season(year, l) /\ RowCount' <= MaxRows
    \/ \E id \in TeamIds, n \in TeamNames, l \in 1..Len(leagues) :
          U_get_or_create_team(id, n, l) /\ RowCount' <= MaxRows
    \/ \E id \in PlayerIds, n \in PlayerNames :
          U_get_or_create_player(id, n) /\ RowCount' <= MaxRows
    \/ \E code \in LeagueCodes : W_league(code) /\ RowCount' <= MaxRows
    \/ \E year \in Years, l \in 1..Len(leagues) :
          W_get_season(year, l) /\ RowCount' <= MaxRows
    \/ \E id \in WsIds, n \in WsNames :
          W_get_or_create_whoscored_player(id, n) /\ RowCount' <= MaxRows
    \/ \E n \in TeamNames, l \in 1..Len(leagues), h \in HashVals \cup {0} :
          W_get_or_create_team(n, l, h) /\ RowCount' <= MaxRows

SpecUpsert == Init /\ [][NextUpsert]_vars

\* C1: a get-or-create call for an authoritative identity (League by code,
\* Season by (league, year), Team and Player by understat_id, WhoScoredPlayer
\* by whoscored_id) ends with exactly one row of that identity, which it
\* returns; if a row of that identity was stored before the call, the call
\* changes no table and returns that row.
IdentityOf(op, r) ==
    CASE op \in {"league", "ws_league"} -> <<r.name>>
      [] op \in {"season", "ws_season"} -> <<r.league_id, r.year>>
      [] op = "team" -> <<r.understat_id>>
      [] op = "player" -> <<r.understat_id>>
      [] op = "ws_player" -> <<r.whoscored_id>>

UpsertOps == {"league", "ws_league", "season", "ws_season", "team", "player", "ws_player"}

IdempotentOn(op, table, tableAfter) ==
    LET before == Rows(table, LAMBDA r : IdentityOf(op, r) = call'.key)
        after == Rows(tableAfter, LAMBDA r : IdentityOf(op, r) = call'.key)
    IN  /\ after = {call'.ret}
        /\ before # {} => before = after /\ tableAfter = table

C1_IdempotentUpsert ==
    [][call'.op \in UpsertOps =>
         CASE call'.op \in {"league", "ws_league"} -> IdempotentOn(call'.op, leagues, leagues')
           [] call'.op \in {"season", "ws_season"} -> IdempotentOn(call'.op, seasons, seasons')
           [] call'.op = "team" -> IdempotentOn(call'.op, teams, teams')
           [] call'.op = "player" -> IdempotentOn(call'.op, players, players')
           [] call'.op = "ws_player" -> IdempotentOn(call'.op, wsplayers, wsplayers')]_vars

\* the WhoScored scraper has asked for a season that the store held already,
\* beside a season of another identity
C1_Witness ==
    /\ call.op = "ws_season"
    /\ Len(seasons) = 2
    /\ call.ret = 1

\* C2: however two processes interleave the query and the insert-and-commit
\* of get-or-create for one identity, neither ends in an unhandled failure
\* and the store holds at most one row of the identity (Season by
\* (league, year), Team by understat_id).
C2_ConcurrentConverges ==
    /\ \A p \in Procs : procs[p].pc # "failed"
    /\ \A i, j \in 1..Len(seasons) :
          (seasons[i].year = seasons[j].year
           /\ seasons[i].league_id = seasons[j].league_id) => i = j
    /\ \A i, j \in 1..Len(teams) : teams[i].understat_id = teams[j].understat_id => i = j

\* C3: once a WhoScoredPlayer's understat_player_id is set, no step clears it
\* or points it at another Player, and the row stays as it is; so a link goes
\* from unset to set at most once and a maintainer run leaves linked rows alone.
C3_LinkMonotonic ==
    [][\A i \in 1..Len(wsplayers) :
          wsplayers[i].understat_player_id # Null =>
             /\ i <= Len(wsplayers')
             /\ wsplayers'[i] = wsplayers[i]]_vars

\* a maintainer run has ended with a linked row that the resolver, asked now,
\* would give to another Player
C3_Witness ==
    /\ call.op = "link"
    /\ \E i \in 1..Len(wsplayers) :
          /\ wsplayers[i].understat_player_id # Null
          /\ find_matching_player(wsplayers[i].name, call.key[1]) # Null
          /\ find_matching_player(wsplayers[i].name, call.key[1])
                # wsplayers[i].understat_player_id

\* C4: a maintainer run that starts with every WhoScoredPlayer linked changes
\* no row of any table and returns 0.
C4_LinkFixedPoint ==
    [][(/\ call'.op = "link"
        /\ \A i \in 1..Len(wsplayers) : wsplayers[i].understat_player_id # Null)
       => /\ UNCHANGED <<leagues, seasons, teams, players, pstats, wsplayers, wsstats>>
          /\ call'.ret = 0]_vars

\* a maintainer run over a non-empty, fully linked table has returned 0
C4_Witness ==
    /\ call.op = "link"
    /\ call.ret = 0
    /\ Len(wsplayers) = Cardinality(WsIds)
    /\ \A i \in 1..Len(wsplayers) : wsplayers[i].understat_player_id # Null

\* no Player's similarity to the name reaches the threshold
NoMatch(name, pct) ==
    \A j \in 1..Len(players) : ~ScoreGePct(similarity_score(name, players[j].name), pct)

\* C5: a maintainer run leaves unlinked, and unchanged, every unlinked row
\* whose name no Player matches; it changes no table but whoscored_players.
C5_NoMatchNoTrace ==
    [][call'.op = "link" =>
         /\ UNCHANGED <<leagues, seasons, teams, players, pstats, wsstats>>
         /\ Len(wsplayers') = Len(wsplayers)
         /\ \A i \in 1..Len(wsplayers) :
               (/\ wsplayers[i].understat_player_id = Null
                /\ NoMatch(wsplayers[i].name, call'.key[1]))
               => wsplayers'[i] = wsplayers[i]]_vars

\* a maintainer run has ended, Players exist, and a row no Player matches is
\* still unlinked
C5_Witness ==
    /\ call.op = "link"
    /\ Len(players) = Cardinality(PlayerIds)
    /\ \E i \in 1..Len(wsplayers) :
          /\ wsplayers[i].understat_player_id = Null
          /\ NoMatch(wsplayers[i].name, call.key[1])

\* the calls that meet a team by its name alone, and the name they meet
NameOnlyOps == {"process_player", "ws_team", "ws_process_row"}

EncounteredName(c) == IF c.op = "ws_team" THEN c.key[1] ELSE c.key[2]

\* C6: a team met by name alone is never given the Team row of another name
\* (names compared as normalize_name does): no two distinct names share a
\* placeholder identifier.
C6_PlaceholderPerName ==
    call.op \in NameOnlyOps =>
        normalize_name(teams[call.ret].name) = normalize_name(EncounteredName(call))

\* C7: the understat_id that a call stores for a team met by name alone is
\* negative, outside the authoritative (positive) ids.
C7_PlaceholderNegative ==
    [][(call'.op \in NameOnlyOps /\ Len(teams') = Len(teams) + 1)
          => teams'[Len(teams')].understat_id < 0]_vars

\* C8: when a team is met by name alone and a Team of that name is stored,
\* the call returns the first stored Team of that name and creates no Team;
\* stored Team rows never change, so that is the row made when the name was
\* first met.
C8_PlaceholderReuse ==
    [][/\ \A i \in 1..Len(teams) : i <= Len(teams') /\ teams'[i] = teams[i]
       /\ (call'.op \in NameOnlyOps /\ TeamByName(EncounteredName(call')) # Null)
             => /\ teams' = teams
                /\ call'.ret = TeamByName(EncounteredName(call'))]_vars

\* a team was met by name alone for the second time: the call returned a
\* placeholder row of that name that was not the newest row
C8_Witness ==
    /\ call.op \in NameOnlyOps
    /\ call.ret < Len(teams)
    /\ teams[call.ret].name = EncounteredName(call)
    /\ teams[call.ret].understat_id \notin TeamIds

\* C9: at most one Team row per (normalized name, league).
C9_TeamUnique ==
    \A i, j \in 1..Len(teams) :
        (/\ normalize_name(teams[i].name) = normalize_name(teams[j].name)
         /\ teams[i].league_id = teams[j].league_id) => i = j

\* C10: at most one PlayerSeasonStats row per (player, season, team) and at
\* most one WhoScoredPlayerSeasonStats row per (player, season, team); a
\* record ingested for a tuple that has a row inserts no row and leaves the
\* record's metrics (zero for a value that is no number) in that row.
SameTuple(a, b) ==
    a.player_id = b.player_id /\ a.season_id = b.season_id /\ a.team_id = b.team_id

StatsUnique(table) ==
    \A i, j \in 1..Len(table) : SameTuple(table[i], table[j]) => i = j

C10_StatsUniqueOverwrite ==
    [][/\ StatsUnique(pstats') /\ StatsUnique(wsstats')
       /\ \A p \in StatsRecords :
            LET player == PlayerByUnderstatId(p.id)
                row == IF player = Null THEN Null
                       ELSE PStatsOf(player, call'.key[3], call'.ret)
            IN  (/\ call'.op = "process_player"
                 /\ call'.key = <<p.id, first_team_name(p.team_title), call'.key[3]>>
                 /\ call'.metrics = <<p.games, p.goals>>
                 /\ row # Null)
                => /\ Len(pstats') = Len(pstats)
                   /\ pstats'[row].games = _safe_int(p.games)
                   /\ pstats'[row].goals = _safe_int(p.goals)
       /\ \A r \in StatsRows :
            LET player == WsPlayerById(r.playerId)
                row == IF player = Null THEN Null
                       ELSE WsStatsOf(player, call'.key[3], call'.ret)
            IN  (/\ call'.op = "ws_process_row"
                 /\ call'.key = <<r.playerId, r.teamName, call'.key[3]>>
                 /\ call'.metrics = <<r.apps, r.tackles>>
                 /\ row # Null)
                => /\ Len(wsstats') = Len(wsstats)
                   /\ wsstats'[row].games = _safe_int(r.apps)
                   /\ wsstats'[row].tackles =
                         _safe_int(r.tackles) * (IF _safe_int(r.apps) = 0 THEN 1
                                                 ELSE _safe_int(r.apps))]_vars

\* C11: a record (or a team of teamsData) whose authoritative id is stored
\* under another name gets an error outcome; the stored row keeps its name,
\* no statistics are written for the record, and the loop goes on to the
\* next record.
IdConflict(table, c) ==
    \E i \in 1..Len(table) :
        table[i].understat_id = c.key[1] /\ table[i].name # c.name

C11_IdConflictError ==
    [][/\ (call'.op = "process_player" /\ IdConflict(players, call'))
            => /\ call'.raised
               /\ players' = players
               /\ pstats' = pstats
               /\ batch'.state = "running"
       /\ (call'.op = "team" /\ IdConflict(teams, call'))
            => /\ call'.raised
               /\ teams' = teams]_vars

\* C12: when a scrape is over, with or without a failed record, every
\* well-formed record of its playersData has its statistics committed.
Malformed(p) == UnderstatIntRaises(p.games) \/ UnderstatIntRaises(p.goals)

Committed(p, season_id) ==
    \E r \in 1..Len(savedP) :
        /\ PlayerByUnderstatId(p.id) # Null
        /\ savedP[r].player_id = PlayerByUnderstatId(p.id)
        /\ savedP[r].season_id = season_id
        /\ savedP[r].games = UnderstatInt(p.games)
        /\ savedP[r].goals = UnderstatInt(p.goals)

C12_FailedItemIsolated ==
    batch.state \in {"done", "aborted"} =>
        \A i \in 1..Len(batch.recs) :
            ~Malformed(batch.recs[i]) => Committed(batch.recs[i], batch.season_id)

\* C13: a metric that is missing, '-' or no number is stored as 0 and the
\* record raises nothing, for Understat records and WhoScored rows alike.
C13_MalformedIsZero ==
    [][/\ call'.op = "process_player" =>
            /\ ~call'.raised
            /\ \E r \in 1..Len(pstats') :
                  /\ pstats'[r].player_id \in 1..Len(players')
                  /\ players'[pstats'[r].player_id].understat_id = call'.key[1]
                  /\ pstats'[r].season_id = call'.key[3]
                  /\ pstats'[r].team_id = call'.ret
                  /\ pstats'[r].games = _safe_int(call'.metrics[1])
                  /\ pstats'[r].goals = _safe_int(call'.metrics[2])
       /\ call'.op = "ws_process_row" =>
            /\ ~call'.raised
            /\ \E r \in 1..Len(wsstats') :
                  /\ wsstats'[r].player_id \in 1..Len(wsplayers')
                  /\ wsplayers'[wsstats'[r].player_id].whoscored_id = call'.key[1]
                  /\ wsstats'[r].season_id = call'.key[3]
                  /\ wsstats'[r].team_id = call'.ret
                  /\ wsstats'[r].games = _safe_int(call'.metrics[1])]_vars

\* C14: find_matching_team answers with a Team of the first step that has
\* one: a Team whose lower-cased name is the input's; else a Team stored
\* under a name of an alias group the input belongs to; else a Team whose
\* similarity reaches the threshold; and None only when no step has a Team.
ExactRows(n) == {i \in 1..Len(teams) : SqlLower(teams[i].name) = PyLower(n)}

GroupsOf(n) ==
    {g \in 1..Len(TEAM_NAME_MAP) :
        \E k \in 1..Len(TEAM_NAME_MAP[g]) :
            normalize_name(TEAM_NAME_MAP[g][k]) = normalize_name(n)}

AliasRows(n) ==
    {i \in 1..Len(teams) :
        \E g \in GroupsOf(n) : \E k \in 1..Len(TEAM_NAME_MAP[g]) :
            SqlLower(teams[i].name) = PyLower(TEAM_NAME_MAP[g][k])}

FuzzyRows(n, pct) ==
    {i \in 1..Len(teams) : ScoreGePct(similarity_score(n, teams[i].name), pct)}

C14_CascadeOrder ==
    call.op = "find_team" =>
        LET n == call.key[1]
            pct == call.key[2]
        IN  /\ ExactRows(n) # {} => call.ret \in ExactRows(n)
            /\ (ExactRows(n) = {} /\ AliasRows(n) # {}) => call.ret \in AliasRows(n)
            /\ (ExactRows(n) = {} /\ AliasRows(n) = {} /\ FuzzyRows(n, pct) # {})
                  => call.ret \in FuzzyRows(n, pct)
            /\ (ExactRows(n) = {} /\ AliasRows(n) = {} /\ FuzzyRows(n, pct) = {})
                  <=> call.ret = Null

\* the resolver has answered with the exact step's Team although the alias
\* step holds another Team for the same input
C14_Witness ==
    /\ call.op = "find_team"
    /\ call.ret \in ExactRows(call.key[1])
    /\ AliasRows(call.key[1]) \ ExactRows(call.key[1]) # {}
    /\ AliasTeam(call.key[1], 1) # call.ret

\* C17: when a Team is stored under a name of an alias group, the resolver
\* gives one and the same Team for every name of the group.
C17_AliasConvergence ==
    \A g \in 1..Len(TEAM_NAME_MAP) : \A pct \in Thresholds :
        (\E k \in 1..Len(TEAM_NAME_MAP[g]) : TeamByLower(TEAM_NAME_MAP[g][k]) # Null)
        => \A a, b \in 1..Len(TEAM_NAME_MAP[g]) :
              /\ find_matching_team(TEAM_NAME_MAP[g][a], pct) # Null
              /\ find_matching_team(TEAM_NAME_MAP[g][a], pct)
                    = find_matching_team(TEAM_NAME_MAP[g][b], pct)

\* C18 as claimed: the two spellings of Bayern have one normalized key, and
\* with a Team stored under one spelling the resolver finds it for the other
\* at the exact step, by equal normalized keys.
BayernCase ==
    /\ call.op = "find_team"
    /\ \/ call.key[1] = BayernMunchen /\ TeamByLower(BayernMunich) # Null
       \/ call.key[1] = BayernMunich /\ TeamByLower(BayernMunchen) # Null
    /\ TeamByLower(call.key[1]) = Null

C18_DiacriticExact ==
    BayernCase =>
        /\ normalize_name(BayernMunchen) = normalize_name(BayernMunich)
        /\ call.ret # Null
        /\ normalize_name(teams[call.ret].name) = normalize_name(call.key[1])
        /\ call.ret \in ExactRows(call.key[1])

\* C18 as amended: the two spellings have different normalized keys, and
\* with a Team stored under one spelling and none under the other the
\* resolver finds that Team for the other spelling at the alias step: not
\* by the exact step, and whatever the fuzzy threshold.
C18_DiacriticAlias ==
    /\ normalize_name(BayernMunchen) # normalize_name(BayernMunich)
    /\ BayernCase =>
          LET other == IF call.key[1] = BayernMunchen THEN BayernMunich
                       ELSE BayernMunchen
          IN  /\ call.ret = TeamByLower(other)
              /\ call.ret \notin ExactRows(call.key[1])
              /\ find_matching_team(call.key[1], 101) = call.ret

\* the resolver was asked for "Bayern M\u00FCnchen" with the Team stored as
\* "Bayern Munich", and has answered with that Team
C18_Witness ==
    /\ BayernCase
    /\ call.key[1] = BayernMunchen
    /\ call.ret # Null
    /\ teams[call.ret].name = BayernMunich

\* C15: when the fuzzy step is reached, the resolver returns a candidate
\* only if its score is the maximum over all the candidates and reaches the
\* threshold, it returns one whenever some candidate reaches the threshold,
\* and among candidates of equal maximum score it returns the lowest id.
TeamScore(i) == similarity_score(call.key[1], teams[i].name)

PlayerScore(i) == similarity_score(call.key[1], players[i].name)

ExactPlayers(n) == {i \in 1..Len(players) : SqlLower(players[i].name) = PyLower(n)}

TeamFuzzyStep ==
    /\ call.op = "find_team"
    /\ ExactRows(call.key[1]) = {}
    /\ AliasRows(call.key[1]) = {}

PlayerFuzzyStep == call.op = "find_player" /\ ExactPlayers(call.key[1]) = {}

TeamsAccepted(pct) == {n \in FuzzyTeamQueries : find_matching_team(n, pct) # Null}

PlayersAccepted(pct) == {n \in FuzzyPlayerQueries : find_matching_player(n, pct) # Null}

C16_ThresholdMonotone ==
    \A t1, t2 \in FuzzyThresholds :
        t1 < t2 =>
            LET T1 == TeamsAccepted(t1)
                T2 == TeamsAccepted(t2)
                P1 == PlayersAccepted(t1)
                P2 == PlayersAccepted(t2)
            IN  /\ T2 \subseteq T1
                /\ P2 \subseteq P1
                /\ Cardinality(T2) <= Cardinality(T1)
                /\ Cardinality(P2) <= Cardinality(P1)

\* the player resolver has refused a name at one threshold that it accepts
\* at a lower one
C16_Witness ==
    /\ call.op = "find_player"
    /\ call.ret = Null
    /\ \E t \in FuzzyThresholds :
          t < call.key[2] /\ find_matching_player(call.key[1], t) # Null

\* C19: normalizing a normalized name changes nothing, for every name, and
\* the empty name has the empty key.
C19_NormalizeIdempotent ==
    call.op = "normalize" =>
        /\ normalize_name(call.ret) = call.ret
        /\ call.key[1] = <<>> => call.ret = <<>>

\* a name with a leading blank and an accented or combining character has
\* been normalized to a non-empty key
C19_Witness ==
    /\ call.op = "normalize"
    /\ call.key[1] # <<>>
    /\ Head(call.key[1]) = " "
    /\ \E i \in 1..Len(call.key[1]) : call.key[1][i] \in NonAscii
    /\ call.ret # <<>>
    /\ call.ret # call.key[1]

\* C20: the score of two names is the same in both argument orders, and the
\* score of a name with itself is 1.0.
C20_SimilaritySymmetric ==
    call.op = "similarity" =>
        /\ call.ret = similarity_score(call.key[2], call.key[1])
        /\ call.key[1] = call.key[2] => call.ret[1] = call.ret[2]

\* C21: the export keeps exactly one row of every (player_id, season_id)
\* group of the rows read, a row whose tackles are the greatest of the
\* group; no group is dropped, one whose rows all lack tackles included.
GroupOf(df, i) ==
    {j \in 1..Len(df) : /\ df[j].player_id = df[i].player_id
                        /\ df[j].season_id = df[i].season_id}

Kept(c) == {c.ret[k] : k \in 1..Len(c.ret)}

C21_KeepsRichest ==
    call.op = "export" =>
        LET df == call.key[1] IN
        /\ Kept(call) \subseteq 1..Len(df)
        /\ Cardinality(Kept(call)) = Len(call.ret)
        /\ \A i \in 1..Len(df) :
              /\ Cardinality(Kept(call) \cap GroupOf(df, i)) = 1
              /\ \A k \in Kept(call) \cap GroupOf(df, i) :
                    \A j \in GroupOf(df, i) : ~TacklesBefore(df[j], df[k])

\* an export of a store where one player's rows of the season have
\* different tackles and another player's row has none
C21_Witness ==
    /\ call.op = "export"
    /\ \E i, j \in 1..Len(call.key[1]) :
          /\ j \in GroupOf(call.key[1], i)
          /\ TacklesBefore(call.key[1][i], call.key[1][j])
          /\ call.key[1][j].tackles # Null
          /\ i \in Kept(call)
    /\ \E i \in 1..Len(call.key[1]) :
          /\ \A j \in GroupOf(call.key[1], i) : call.key[1][j].tackles = Null
          /\ Kept(call) \cap GroupOf(call.key[1], i) # {}

\* C23: the row the export keeps for a group is, of the group's rows of
\* greatest tackles, the one that comes first in the rows read.
C23_StableTieBreak ==
    call.op = "export" =>
        LET df == call.key[1] IN
        \A k \in Kept(call) :
            \A j \in GroupOf(df, k) :
                TacklesBefore(df[k], df[j]) \/ k <= j

\* C22: whatever the order in which the records of the two batches arrived,
\* the store is the one that a reference order of the same records gives
\* (the Understat records in ascending id, then the WhoScored rows): every
\* WhoScoredPlayer row is linked to the Player that order links it to, the
\* Player of least understat_id whose name contains its name, or to none.
RefCandidates(w) ==
    {q \in 1..Len(players) :
        Contains(SqlLower(players[q].name), SqlLower(wsplayers[w].name))}

RefLink(w) ==
    IF RefCandidates(w) = {} THEN Null
    ELSE CHOOSE q \in RefCandidates(w) :
            \A x \in RefCandidates(w) : players[q].understat_id <= players[x].understat_id

C22_OrderIndependent ==
    \A w \in 1..Len(wsplayers) : wsplayers[w].understat_player_id = RefLink(w)

\* C25: a record whose processing fails leaves no row and no field change
\* of its own in the store: the tables are as before the record.
C25_RecordAtomic ==
    [][(call'.op = "process_player" /\ call'.raised)
       => /\ players' = players
          /\ teams' = teams
          /\ pstats' = pstats]_vars

\* C26: a maintainer run changes only rows whose link was unset at its
\* start, the count it returns is the number of rows whose link went from
\* unset to set, the unlinked rows afterwards are that many fewer, and the
\* count does not exceed the number of rows that were unlinked.
UnlinkedIn(table) == {i \in 1..Len(table) : table[i].understat_player_id = Null}

C26_LinkCounts ==
    [][call'.op = "link" =>
         /\ Len(wsplayers') = Len(wsplayers)
         /\ \A i \in 1..Len(wsplayers) :
               i \notin UnlinkedIn(wsplayers) => wsplayers'[i] = wsplayers[i]
         /\ call'.ret = Cardinality(UnlinkedIn(wsplayers) \ UnlinkedIn(wsplayers'))
         /\ Cardinality(UnlinkedIn(wsplayers'))
               = Cardinality(UnlinkedIn(wsplayers)) - call'.ret
         /\ call'.ret <= Cardinality(UnlinkedIn(wsplayers))]_vars

\* a maintainer run has linked a row and left another, which it considered,
\* unlinked
C26_Witness ==
    /\ call.op = "link"
    /\ call.ret >= 1
    /\ UnlinkedIn(wsplayers) # {}

\* C27: every WhoScoredPlayer whose link is set points to a Player whose
\* name is its name ignoring case or is similar to it by 0.85 or more.
C27_LinkJustified ==
    \A w \in 1..Len(wsplayers) :
        wsplayers[w].understat_player_id # Null =>
            LET q == wsplayers[w].understat_player_id IN
            /\ q \in 1..Len(players)
            /\ \/ SqlLower(players[q].name) = PyLower(wsplayers[w].name)
               \/ ScoreGePct(similarity_score(wsplayers[w].name, players[q].name), 85)

\* C28: no two Team rows have the same understat_id, and a step that
\* inserts a Team inserts one row whose understat_id no stored Team has.
C28_TeamIdUnique ==
    [][/\ \A i, j \in 1..Len(teams') :
             teams'[i].understat_id = teams'[j].understat_id => i = j
       /\ Len(teams') > Len(teams) =>
             /\ Len(teams') = Len(teams) + 1
             /\ \A i \in 1..Len(teams) :
                   teams[i].understat_id # teams'[Len(teams')].understat_id]_vars

\* a name-only path has met a name whose placeholder id is the understat_id
\* of a stored Team of another name, and has answered with that Team
C28_Witness ==
    /\ call.op \in NameOnlyOps
    /\ call.ret \in 1..Len(teams)
    /\ teams[call.ret].name # EncounteredName(call)
    /\ SqlLower(teams[call.ret].name) # SqlLower(EncounteredName(call))
    /\ Len(teams) >= 2

\* C30: in the store a maintainer run leaves, a maintainer run of the same
\* threshold sets no link, changes no row and returns 0.
C30_LinkRerunNoop ==
    call.op = "link" =>
        /\ LinkedRows(call.key[1]) = wsplayers
        /\ linked_count(call.key[1]) = 0

\* a maintainer run has returned 0 with links set and a row still unlinked
\* that the resolver has no Player for
C30_Witness ==
    /\ call.op = "link"
    /\ call.ret = 0
    /\ UnlinkedIn(wsplayers) # {}
    /\ UnlinkedIn(wsplayers) # 1..Len(wsplayers)
    /\ \A i \in UnlinkedIn(wsplayers) :
          find_matching_player(wsplayers[i].name, call.key[1]) = Null

\* C29: a round of _process_matches_data for a match whose understat_id is
\* stored changes no Match row and adds none; a round that adds a row adds
\* one, for a record whose home and away names are the names of stored
\* Teams, and no understat_id is ever stored twice.
C29_MatchReingestNoop ==
    [][call'.op = "process_match" =>
         /\ (\E i \in 1..Len(matches) : matches[i].understat_id = call'.key[1])
               => matches' = matches
         /\ matches' # matches =>
               /\ Len(matches') = Len(matches) + 1
               /\ SubSeq(matches', 1, Len(matches)) = matches
               /\ matches'[Len(matches')].understat_id = call'.key[1]
               /\ matches'[Len(matches')].home_team_id \in 1..Len(teams)
               /\ matches'[Len(matches')].away_team_id \in 1..Len(teams)
               /\ teams[matches'[Len(matches')].home_team_id].name = call'.key[2]
               /\ teams[matches'[Len(matches')].away_team_id].name = call'.key[3]
         /\ \A i, j \in 1..Len(matches') :
               matches'[i].understat_id = matches'[j].understat_id => i = j]_vars

\* a match stored as a fixture has been ingested again as a result, and
\* the stored row is still the fixture
C29_Witness ==
    /\ call.op = "process_match"
    /\ call.key[4]
    /\ call.ret # Null
    /\ matches[call.ret].understat_id = call.key[1]
    /\ ~matches[call.ret].is_result
    /\ matches[call.ret].home_goals = Null

\* C24: when every shard of a sharded maintainer run has ended, the rows
\* that the run started with are the rows that one run of the loop over
\* all the rows unlinked at the start, in the order of the table, gives.
RECURSIVE SequentialRun(_, _, _, _)
SequentialRun(table, start, i, pct) ==
    IF i > Len(table) THEN table
    ELSE SequentialRun(IF start[i].understat_player_id = Null
                       THEN link_row(table, i, pct) ELSE table,
                       start, i + 1, pct)

ShardsEnded == \A p \in Procs : procs[p].op = "link" /\ procs[p].pc = "done"

C24_ShardedAsSequential ==
    ShardsEnded =>
        LET start == procs[1].args[3]
            pct == procs[1].args[2]
        IN  /\ Len(wsplayers) >= Len(start)
            /\ SubSeq(wsplayers, 1, Len(start)) = SequentialRun(start, start, 1, pct)

\* a sharded run has ended in which each of two processes had a row and
\* linked it
C24_Witness ==
    /\ ShardsEnded
    /\ \A p \in Procs :
          /\ Len(procs[p].args[1]) >= 1
          /\ wsplayers[procs[p].args[1][1]].understat_player_id # Null

====
